---- MODULE Spec2Model ----
(***************************************************************************)
(* The outer iteration of optimistix's Gauss-Newton / Levenberg-Marquardt  *)
(* least-squares solvers (AbstractGaussNewton.init / step / terminate and  *)
(* the three concrete solver classes), as a state machine driven by the    *)
(* enclosing solve loop.                                                   *)
(*                                                                         *)
(* Floating-point values are extended rationals: a finite fraction n/d,    *)
(* +inf / -inf, or nan, with IEEE rules for the non-finite cases.          *)
(* Parameters, residuals and displacements are tuples of such values.      *)
(***************************************************************************)
EXTENDS Integers, Sequences, FiniteSets, TLC

VARIABLES
    pc,        \* "new" | "constructed" | "run" | "done": position of the driver
    ctor,      \* the arguments the solver's constructor was called with
    solver,    \* the constructed solver object (rtol, atol, line_search, descent, norm)
    prob,      \* the least-squares problem: residual function and initial parameter
    y,         \* the current parameter held by the driver
    state,     \* the current _GNState
    retAux,    \* the aux most recently returned by step to the driver
    termOut,   \* the (terminate, result) pair of the last terminate call on `state`
    obs,       \* what the last step call passed to / got from its collaborators
    prevObs,   \* obs of the step call before the last one
    nsteps,    \* number of step calls made since init
    ncalls,    \* number of terminate calls made on the current state
    njac       \* number of residual/Jacobian evaluations made since construction

vars ==
    <<pc, ctor, solver, prob, y, state, retAux, termOut, obs, prevObs, nsteps,
      ncalls, njac>>

-----------------------------------------------------------------------------
(* Bounds of the model *)

\* cap on the number of step calls the driver makes
MaxSteps == 3
\* largest magnitude of the values drawn for an arbitrary state
MaxVal == 2
\* cap on the number of terminate calls the driver makes on one state
MaxCalls == 2

-----------------------------------------------------------------------------
(* Extended rational arithmetic (the float operations the code uses) *)

RECURSIVE GCD(_, _)
GCD(a, b) == IF b = 0 THEN a ELSE GCD(b, a % b)

IAbs(i) == IF i < 0 THEN -i ELSE i

ISgn(i) == IF i > 0 THEN 1 ELSE IF i < 0 THEN -1 ELSE 0

\* the finite value n/d (d > 0) in lowest terms
Q(n, d) ==
    LET g == GCD(IAbs(n), d)
    IN  [k |-> "fin", n |-> n \div g, d |-> d \div g]

Fin(n) == [k |-> "fin", n |-> n, d |-> 1]

PosInf == [k |-> "inf", n |-> 1, d |-> 1]

NegInf == [k |-> "inf", n |-> -1, d |-> 1]

NaN == [k |-> "nan", n |-> 0, d |-> 1]

Zero == Fin(0)

One == Fin(1)

IsFin(x) == x.k = "fin"

SignedInf(s) == IF s > 0 THEN PosInf ELSE NegInf

jnp_abs(x) == IF x.k = "nan" THEN NaN ELSE [x EXCEPT !.n = IAbs(x.n)]

neg(x) == IF x.k = "nan" THEN NaN ELSE [x EXCEPT !.n = -x.n]

add(a, b) ==
    IF a.k = "nan" \/ b.k = "nan" THEN NaN
    ELSE IF a.k = "inf" /\ b.k = "inf" THEN (IF a.n = b.n THEN a ELSE NaN)
    ELSE IF a.k = "inf" THEN a
    ELSE IF b.k = "inf" THEN b
    ELSE LET g == GCD(a.d, b.d)
         IN  Q(a.n * (b.d \div g) + b.n * (a.d \div g), a.d * (b.d \div g))

sub(a, b) == add(a, neg(b))

mul(a, b) ==
    IF a.k = "nan" \/ b.k = "nan" THEN NaN
    ELSE IF a.k = "inf" \/ b.k = "inf"
         THEN (IF a.n = 0 \/ b.n = 0 THEN NaN ELSE SignedInf(ISgn(a.n) * ISgn(b.n)))
    ELSE Q(a.n * b.n, a.d * b.d)

truediv(a, b) ==
    IF a.k = "nan" \/ b.k = "nan" THEN NaN
    ELSE IF a.k = "inf" /\ b.k = "inf" THEN NaN
    ELSE IF a.k = "inf" THEN SignedInf(a.n * (IF b.n < 0 THEN -1 ELSE 1))
    ELSE IF b.k = "inf" THEN Zero
    ELSE IF b.n = 0 THEN (IF a.n = 0 THEN NaN ELSE SignedInf(a.n))
    ELSE Q(a.n * b.d * ISgn(b.n), a.d * IAbs(b.n))

\* a < b; every comparison with nan is false
lt(a, b) ==
    IF a.k = "nan" \/ b.k = "nan" THEN FALSE
    ELSE IF a.k = "inf" THEN (a.n < 0 /\ ~(b.k = "inf" /\ b.n < 0))
    ELSE IF b.k = "inf" THEN b.n > 0
    ELSE a.n * b.d < b.n * a.d

\* the larger of two values, nan if either is nan (jnp.max propagates nan)
fmax(a, b) ==
    IF a.k = "nan" \/ b.k = "nan" THEN NaN
    ELSE IF lt(a, b) THEN b ELSE a

-----------------------------------------------------------------------------
(* Trees of values: tuples indexed 1..n *)

tree_full_like(t, v) == [i \in DOMAIN t |-> v]

tree_zeros(struct) == [i \in DOMAIN struct |-> Zero]

tree_ones(struct) == [i \in DOMAIN struct |-> One]

tree_add(a, b) == [i \in DOMAIN a |-> add(a[i], b[i])]

tree_where(pred, a, b) == IF pred THEN a ELSE b

RECURSIVE max_abs(_, _)
max_abs(t, i) ==
    IF i = 0 THEN Zero ELSE fmax(jnp_abs(t[i]), max_abs(t, i - 1))

\* the norm of the convergence test: the largest absolute value of a leaf
max_norm(t) == max_abs(t, Len(t))

RECURSIVE sum_sq(_, _)
sum_sq(t, i) ==
    IF i = 0 THEN Zero ELSE add(mul(t[i], t[i]), sum_sq(t, i - 1))

sum_squares(t) == sum_sq(t, Len(t))

-----------------------------------------------------------------------------
(* The result codes *)

RESULTS == {"successful", "max_steps_reached", "linear_solve_failed"}


-----------------------------------------------------------------------------
(* The residual function and its evaluation *)

\* fn(x, args): the residual a*x - c on every leaf, and as auxiliary output
\* the point the function was evaluated at
fn(p, x) ==
    [residual |-> [i \in DOMAIN x |-> sub(mul(Fin(p.a), x[i]), Fin(p.c))],
     aux |-> x]

\* the sub-problem's objective: sum of squared residuals, and fn's aux
line_search_fn(p, x) ==
    LET out == fn(p, x)
    IN  [f |-> sum_squares(out.residual), aux |-> out.aux]

\* lx.JacobianLinearOperator(fn, x, args): the Jacobian of fn, held lazily as
\* the point x it is taken at
JacobianLinearOperator(p, x) == [x |-> x]

\* the diagonal of the Jacobian an operator stands for: d(a*x - c)/dx at op.x
as_matrix(p, op) == [i \in DOMAIN op.x |-> Fin(p.a)]

compute_jac_residual(p, x) ==
    LET out == fn(p, x)
    IN  [vector |-> out.residual,
         operator |-> JacobianLinearOperator(p, x),
         aux |-> out.aux]

-----------------------------------------------------------------------------
(* The descent strategies *)

init_state(vector, operator) == [vector |-> vector, operator |-> operator]

update_state(descent_state, diff, vector, operator) ==
    [vector |-> vector, operator |-> operator]

\* the displacement the descent produces for a step size: the Newton
\* direction -J^-1 r of the stored vector and operator, scaled
descent(p, descent_state, step_size) ==
    LET J == as_matrix(p, descent_state.operator)
    IN  [i \in DOMAIN descent_state.vector |->
            neg(mul(step_size, truediv(descent_state.vector[i], J[i])))]

-----------------------------------------------------------------------------
(* The step-acceptance strategies *)

LearningRate(learning_rate) ==
    [name |-> "LearningRate", args |-> <<learning_rate>>]

ClassicalTrustRegion == [name |-> "ClassicalTrustRegion", args |-> <<>>]

UnnormalisedNewton == [name |-> "UnnormalisedNewton", args |-> <<>>]

DirectIterativeDual == [name |-> "DirectIterativeDual", args |-> <<>>]

IndirectIterativeDual(lambda_0) ==
    [name |-> "IndirectIterativeDual", args |-> <<lambda_0>>]

first_init(line_search, vector, operator) ==
    IF line_search.name = "LearningRate" THEN line_search.args[1] ELSE One

\* the step sizes a trust-region run may end on, and the radii it may suggest
TrustRegionSteps == {Q(1, 2), One}

NextInits == {One, Fin(2)}

\* The runs the bounded inner iteration can make: the step size it accepts,
\* the result it reports and the next initial guess it suggests.  The fixed
\* learning rate always accepts its own step size; a trust region may accept a
\* damped step, run into its cap, or see the linear solve fail.
line_search_runs(line_search, y0) ==
    IF line_search.name = "LearningRate"
    THEN {[step_size |-> line_search.args[1], result |-> "successful",
           next_init |-> line_search.args[1]]}
    ELSE [step_size : TrustRegionSteps, result : RESULTS, next_init : NextInits]

\* minimise(fn=problem_1d, solver=line_search, y0=init, options, max_steps=100,
\* throw=False), for the run `run` of the inner iteration: the solution's aux
\* is (f_val, diff, aux, result of the descent, next_init), evaluated at the
\* trial point y + diff.
minimise(p, descent_state, base, run) ==
    LET diff == descent(p, descent_state, run.step_size)
        at == line_search_fn(p, tree_add(base, diff))
    IN  [aux |-> <<at.f, diff, at.aux,
                   IF run.result = "linear_solve_failed"
                   THEN run.result ELSE "successful",
                   run.next_init>>,
         result |-> run.result]

-----------------------------------------------------------------------------
(* The solver classes *)

GaussNewton(rtol, atol) ==
    [kind |-> "GaussNewton", rtol |-> rtol, atol |-> atol,
     line_search |-> LearningRate(One),
     descent |-> UnnormalisedNewton,
     norm |-> "max_norm"]

LevenbergMarquardt(rtol, atol, backtrack_slope, decrease_factor) ==
    [kind |-> "LevenbergMarquardt", rtol |-> rtol, atol |-> atol,
     line_search |-> ClassicalTrustRegion,
     descent |-> DirectIterativeDual,
     norm |-> "max_norm"]

IndirectLevenbergMarquardt(rtol, atol, lambda_0) ==
    [kind |-> "IndirectLevenbergMarquardt", rtol |-> rtol, atol |-> atol,
     line_search |-> ClassicalTrustRegion,
     descent |-> IndirectIterativeDual(lambda_0),
     norm |-> "max_norm"]

\* self.norm applied to a tree
norm(sv, t) == max_norm(t)

-----------------------------------------------------------------------------
(* AbstractGaussNewton.init *)

\* variant: a dummy filled with zeros
dummy_zeros(struct) == tree_zeros(struct)

\* the leaves of the dummy vector and operator of the first pass
dummy(struct) == tree_ones(struct)

\* variant: init evaluates the Jacobian at the initial parameter
init_jac_calls_eager(p, y0) == <<y0>>

\* the points at which init calls the residual function or its Jacobian:
\* the operator is only built in shape (eqx.filter_eval_shape)
init_jac_calls(p, y0) == <<>>

init(sv, p, y0) ==
    LET f0 == PosInf
        aux == tree_zeros(y0)
        vector == dummy(y0)
        operator == JacobianLinearOperator(p, dummy(y0))
        descent_state == init_state(vector, operator)
    IN  [descent_state |-> descent_state,
         vector |-> vector,
         operator |-> operator,
         diff |-> tree_full_like(y0, PosInf),
         result |-> "successful",
         f_val |-> f0,
         f_prev |-> f0,
         next_init |-> One,
         aux |-> aux,
         step |-> 0]

-----------------------------------------------------------------------------
(* AbstractGaussNewton.step *)

\* variant: the flag is also set in the first call
line_search_options_early(y0, st) ==
    [f0 |-> IF st.step > 1 THEN st.f_val ELSE PosInf,
     compute_f0 |-> (st.step <= 1),
     vector |-> st.vector,
     operator |-> st.operator,
     diff |-> y0]

line_search_options(y0, st) ==
    [f0 |-> IF st.step > 1 THEN st.f_val ELSE PosInf,
     compute_f0 |-> (st.step = 1),
     vector |-> st.vector,
     operator |-> st.operator,
     diff |-> y0]

\* variant: the stored guess is used from the second call on
line_search_init_early(sv, st) ==
    IF st.step <= 0
    THEN first_init(sv.line_search, st.vector, st.operator)
    ELSE st.next_init

line_search_init(sv, st) ==
    IF st.step <= 1
    THEN first_init(sv.line_search, st.vector, st.operator)
    ELSE st.next_init

\* variant: the displacement is first applied one call later
new_y_late(y0, st, diff) == tree_where(st.step > 1, tree_add(y0, diff), y0)

\* variant: the displacement stored by the previous call is applied
new_y_stale(y0, st, diff) == tree_where(st.step > 0, tree_add(y0, st.diff), y0)

\* variant: the displacement is applied in the first call too
new_y_always(y0, st, diff) == tree_add(y0, diff)

\* variant: the displacement is applied from the third call on
new_y_third(y0, st, diff) == tree_where(st.step > 1, tree_add(y0, diff), y0)

\* the parameter step returns
new_y(y0, st, diff) == tree_where(st.step > 0, tree_add(y0, diff), y0)

\* variant: step returns the aux it has just computed
step_aux_undelayed(st, new_aux) == new_aux

\* the aux step returns
step_aux(st, new_aux) == st.aux

\* variant: the result of the inner iteration is stored
step_result_propagated(st, line_sol) == line_sol.result

\* the result code step stores
step_result(st, line_sol) == "successful"

\* variant: the operator of the input state is kept
new_operator_stale(st, jr) == st.operator

\* the operator step stores: the one evaluated together with the vector
new_operator(st, jr) == jr.operator

\* variant: f_prev is set to the objective just computed
new_f_prev_current(st, f_val) == f_val

\* the f_prev step stores
new_f_prev(st, f_val) == st.f_val

\* variant: the displacement of the current call is handed over
update_diff_current(st, diff) == diff

\* the displacement step hands to the descent's update_state
update_diff(st, diff) == st.diff

\* the points at which step calls compute_jac_residual
step_jac_calls(y0, ny) == <<ny>>

\* step(fn, y, args, options, state, tags) for the run `run` of its inner
\* iteration: the returned (new_y, new_state, aux), with what it handed to
\* and got from the collaborators it called
step(sv, p, y0, st, run) ==
    LET options == line_search_options(y0, st)
        init0 == line_search_init(sv, st)
        line_sol == minimise(p, st.descent_state, y0, run)
        f_val == line_sol.aux[1]
        diff == line_sol.aux[2]
        new_aux == line_sol.aux[3]
        next_init == line_sol.aux[5]
        ny == new_y(y0, st, diff)
        jr == compute_jac_residual(p, ny)
        descent_state == update_state(st.descent_state, update_diff(st, diff),
                                      jr.vector, jr.operator)
        new_state ==
            [descent_state |-> descent_state,
             vector |-> jr.vector,
             operator |-> new_operator(st, jr),
             diff |-> diff,
             result |-> step_result(st, line_sol),
             f_val |-> f_val,
             f_prev |-> new_f_prev(st, f_val),
             next_init |-> next_init,
             aux |-> new_aux,
             step |-> st.step + 1]
    IN  [y |-> ny,
         state |-> new_state,
         aux |-> step_aux(st, new_aux),
         obs |-> [called |-> TRUE,
                  base |-> y0,
                  in_step |-> st.step,
                  options |-> options,
                  init |-> init0,
                  line_sol |-> line_sol,
                  jac_at |-> ny,
                  jac_calls |-> step_jac_calls(y0, ny),
                  update_args |-> <<update_diff(st, diff), jr.vector, jr.operator>>]]

-----------------------------------------------------------------------------
(* AbstractGaussNewton.terminate *)

\* variant: one completed step is enough
at_least_one(st) == st.step >= 1

at_least_two(st) == st.step >= 2

\* variant: either test is enough
converged_either(y_converged, f_converged) == y_converged \/ f_converged

converged(y_converged, f_converged) == y_converged /\ f_converged

linsolve_fail(st) == st.result # "successful"

\* variant: a failed state still waits for convergence
terminate_flag_unforced(failed, conv, two) == conv /\ two

terminate_flag(failed, conv, two) == failed \/ (conv /\ two)

terminate(sv, y0, st) ==
    LET y_scale == [i \in DOMAIN y0 |->
                       add(sv.atol, mul(sv.rtol, jnp_abs(y0[i])))]
        y_converged ==
            lt(norm(sv, [i \in DOMAIN y0 |-> truediv(st.diff[i], y_scale[i])]),
               One)
        f_scale == add(mul(sv.rtol, jnp_abs(st.f_prev)), sv.atol)
        f_converged ==
            lt(truediv(jnp_abs(sub(st.f_val, st.f_prev)), f_scale), One)
        conv == converged(y_converged, f_converged)
        term == terminate_flag(linsolve_fail(st), conv, at_least_two(st))
        result == IF linsolve_fail(st) THEN st.result ELSE "successful"
    IN  [terminate |-> term, result |-> result]

-----------------------------------------------------------------------------
(* What the driver can be given *)

\* (rtol, atol): a fine pair and a coarse pair
Tols ==
    {[rtol |-> Q(1, 1000), atol |-> Q(1, 1000)],
     [rtol |-> Q(1, 2), atol |-> One]}

\* (backtrack_slope, decrease_factor): the defaults, and another pair
SlopeFactors == {<<Q(1, 10), Q(1, 2)>>, <<Q(1, 5), Q(3, 4)>>}

Lambda0s == {Q(1, 1000)}

CtorArgs ==
    {[kind |-> "GaussNewton", rtol |-> t.rtol, atol |-> t.atol, extra |-> <<>>] :
        t \in Tols}
    \cup
    {[kind |-> "LevenbergMarquardt", rtol |-> t.rtol, atol |-> t.atol,
      extra |-> e] : t \in Tols, e \in SlopeFactors}
    \cup
    {[kind |-> "IndirectLevenbergMarquardt", rtol |-> t.rtol, atol |-> t.atol,
      extra |-> <<l>>] : t \in Tols, l \in Lambda0s}

construct(c) ==
    CASE c.kind = "GaussNewton" -> GaussNewton(c.rtol, c.atol)
      [] c.kind = "LevenbergMarquardt" ->
            LevenbergMarquardt(c.rtol, c.atol, c.extra[1], c.extra[2])
      [] c.kind = "IndirectLevenbergMarquardt" ->
            IndirectLevenbergMarquardt(c.rtol, c.atol, c.extra[1])

\* scenario 1 of the spec: fn(y) = y - 3 from y0 = 0
Scenario1 == [a |-> 1, c |-> 3, y0 |-> <<Zero>>]

Problems ==
    {Scenario1,
     [a |-> 2, c |-> 3, y0 |-> <<Zero>>],
     [a |-> 1, c |-> 1, y0 |-> <<Zero, One>>]}

NoTerm == [valid |-> FALSE, terminate |-> FALSE, result |-> "successful"]

NoProblem == [a |-> 1, c |-> 0, y0 |-> <<>>]

NoObs ==
    [called |-> FALSE, base |-> <<>>, in_step |-> 0,
     options |-> line_search_options(<<>>, init(GaussNewton(One, One), NoProblem, <<>>)),
     init |-> One,
     line_sol |-> [aux |-> <<Zero, <<>>, <<>>, "successful", One>>,
                   result |-> "successful"],
     jac_at |-> <<>>,
     jac_calls |-> <<>>,
     update_args |-> <<<<>>, <<>>, JacobianLinearOperator(NoProblem, <<>>)>>]

-----------------------------------------------------------------------------
(* The driver: construct a solver, init, then terminate / step in turn *)

Init ==
    /\ pc = "new"
    /\ ctor = [kind |-> "GaussNewton", rtol |-> One, atol |-> One, extra |-> <<>>]
    /\ solver = GaussNewton(One, One)
    /\ prob = NoProblem
    /\ y = <<>>
    /\ state = init(GaussNewton(One, One), NoProblem, <<>>)
    /\ retAux = <<>>
    /\ termOut = NoTerm
    /\ obs = NoObs
    /\ prevObs = NoObs
    /\ nsteps = 0
    /\ ncalls = 0
    /\ njac = 0

Construct ==
    /\ pc = "new"
    /\ \E c \in CtorArgs, p \in Problems :
        /\ ctor' = c
        /\ solver' = construct(c)
        /\ prob' = p
        /\ y' = p.y0
    /\ pc' = "constructed"
    /\ UNCHANGED <<state, retAux, termOut, obs, prevObs, nsteps, ncalls, njac>>

InitCall ==
    /\ pc = "constructed"
    /\ state' = init(solver, prob, y)
    /\ njac' = njac + Len(init_jac_calls(prob, y))
    /\ pc' = "run"
    /\ UNCHANGED <<ctor, solver, prob, y, retAux, termOut, obs, prevObs, nsteps,
                   ncalls>>

\* variant: terminate moves the baseline objective up to the current one
TerminateCallRebasing ==
    /\ pc \in {"run", "done"}
    /\ ncalls < MaxCalls
    /\ \E out \in {terminate(solver, y, state)} :
           /\ termOut' = [valid |-> TRUE, terminate |-> out.terminate,
                          result |-> out.result]
           /\ pc' = IF out.terminate THEN "done" ELSE "run"
    /\ state' = [state EXCEPT !.f_prev = state.f_val]
    /\ ncalls' = ncalls + 1
    /\ UNCHANGED <<ctor, solver, prob, y, retAux, obs, prevObs, nsteps, njac>>

\* terminate reads the state and writes none of it
TerminateCall ==
    /\ pc \in {"run", "done"}
    /\ ncalls < MaxCalls
    /\ \E out \in {terminate(solver, y, state)} :
           /\ termOut' = [valid |-> TRUE, terminate |-> out.terminate,
                          result |-> out.result]
           /\ pc' = IF out.terminate THEN "done" ELSE "run"
    /\ ncalls' = ncalls + 1
    /\ UNCHANGED <<ctor, solver, prob, y, state, retAux, obs, prevObs, nsteps,
                   njac>>

StepCall ==
    /\ pc = "run"
    /\ termOut.valid
    /\ ~termOut.terminate
    /\ nsteps < MaxSteps
    /\ \E run \in line_search_runs(solver.line_search, line_search_init(solver, state)) :
        \E r \in {step(solver, prob, y, state, run)} :
            /\ y' = r.y
            /\ state' = r.state
            /\ retAux' = r.aux
            /\ obs' = r.obs
            /\ njac' = njac + Len(r.obs.jac_calls)
    /\ prevObs' = obs
    /\ nsteps' = nsteps + 1
    /\ ncalls' = 0
    /\ termOut' = NoTerm
    /\ UNCHANGED <<pc, ctor, solver, prob>>

Next == Construct \/ InitCall \/ TerminateCall \/ StepCall

Spec == Init /\ [][Next]_vars

-----------------------------------------------------------------------------
(* terminate as a function of an arbitrary state *)

Shapes == {1, 2}

Trees(S) == UNION {[1..n -> S] : n \in Shapes}

DiffVals == {Fin(v) : v \in -1..MaxVal} \cup {PosInf}

YVals == {Fin(-MaxVal), Zero, One}

FVals == {Fin(v) : v \in 0..MaxVal} \cup {PosInf}

TermTols == {[rtol |-> r, atol |-> a] : r \in {Zero, Q(1, 2)}, a \in {Zero, One}}

\* every _GNState over the drawn values, for a parameter of y0's shape
ArbitraryStates(sv, p, y0) ==
    {[init(sv, p, y0) EXCEPT !.step = s, !.result = r, !.diff = d,
                             !.f_val = fv, !.f_prev = fp] :
        s \in 0..MaxSteps, r \in RESULTS,
        d \in [DOMAIN y0 -> DiffVals], fv \in FVals, fp \in FVals}

TermInit ==
    /\ pc = "run"
    /\ ctor \in {[kind |-> "GaussNewton", rtol |-> t.rtol, atol |-> t.atol,
                  extra |-> <<>>] : t \in TermTols}
    /\ solver = construct(ctor)
    /\ y \in Trees(YVals)
    /\ prob = [a |-> 1, c |-> 0, y0 |-> y]
    /\ state \in ArbitraryStates(solver, prob, y)
    /\ retAux = <<>>
    /\ termOut = NoTerm
    /\ obs = NoObs
    /\ prevObs = NoObs
    /\ nsteps = 0
    /\ ncalls = 0
    /\ njac = 0

TermNext == TerminateCall

TermSpec == TermInit /\ [][TermNext]_vars

-----------------------------------------------------------------------------
(* Properties *)

\* the aux the inner iteration of a step call returned
LineSearchAux(o) == o.line_sol.aux[3]

\* C1: every step call returns the aux field of its input state and stores
\* the aux of its own step-acceptance run: after the first call the returned
\* aux is init's zero-filled one, after any later call it is the aux the
\* previous call's run produced, and the state holds the aux of the last run.
C1_DelayedAux ==
    /\ nsteps >= 1 => state.aux = LineSearchAux(obs)
    /\ nsteps = 1 => retAux = tree_zeros(prob.y0)
    /\ nsteps >= 2 => retAux = LineSearchAux(prevObs)

\* a third call whose returned aux differs from the aux of its own run
C1_Witness ==
    /\ nsteps >= 3
    /\ retAux = LineSearchAux(prevObs)
    /\ retAux # LineSearchAux(obs)

\* C2: the aux returned by the step call made on a state with step == 1 is
\* the residual function's aux at the initial parameter y0.
C2_AuxOfSecondCallIsAtY0 ==
    (obs.called /\ obs.in_step = 1) => retAux = fn(prob, prob.y0).aux

\* C3: a step call whose inner iteration reported a non-successful result
\* returns a state carrying that result, and the next terminate call on it
\* returns true.
C3_FailurePropagates ==
    (obs.called /\ obs.line_sol.result # "successful") =>
        /\ state.result = obs.line_sol.result
        /\ termOut.valid => termOut.terminate

\* C4: on a state whose result is not successful terminate returns
\* (true, state.result) whatever step, diff, f_val and f_prev are; on a state
\* whose result is successful the result code it returns is successful.
C4_FailureForcesTermination ==
    termOut.valid =>
        /\ state.result # "successful" =>
              (termOut.terminate /\ termOut.result = state.result)
        /\ state.result = "successful" => termOut.result = "successful"
        /\ ~(termOut.result # "successful" /\ ~termOut.terminate)

\* the parameter test, stated without division: every leaf of diff is finite
\* and smaller in magnitude than atol + rtol * |y|
YTest ==
    \A i \in DOMAIN y :
        /\ IsFin(state.diff[i])
        /\ lt(jnp_abs(state.diff[i]),
              add(solver.atol, mul(solver.rtol, jnp_abs(y[i]))))

\* the objective test, stated without division: both objectives are finite
\* and their distance is smaller than rtol * |f_prev| + atol
FTest ==
    /\ IsFin(state.f_val)
    /\ IsFin(state.f_prev)
    /\ lt(jnp_abs(sub(state.f_val, state.f_prev)),
          add(mul(solver.rtol, jnp_abs(state.f_prev)), solver.atol))

\* a failed state with fewer than two steps that passes neither test
C4_Witness ==
    /\ termOut.valid
    /\ termOut.terminate
    /\ termOut.result = "max_steps_reached"
    /\ state.step < 2
    /\ ~YTest
    /\ ~FTest

\* C5: on a state with a successful result and step < 2 terminate returns
\* false, so convergence is never declared before two completed steps.
C5_NoConvergenceBeforeTwoSteps ==
    (termOut.valid /\ state.result = "successful" /\ state.step < 2) =>
        ~termOut.terminate

\* a state after one step that passes both tests and is not stopped
C5_Witness ==
    /\ termOut.valid
    /\ state.result = "successful"
    /\ state.step = 1
    /\ YTest
    /\ FTest
    /\ ~termOut.terminate

\* C6: on a state with a successful result and step >= 2 terminate returns
\* true exactly when the parameter test and the objective test both hold.
C6_BothTestsNeeded ==
    (termOut.valid /\ state.result = "successful" /\ state.step >= 2) =>
        (termOut.terminate <=> (YTest /\ FTest))

\* a state that passes the parameter test alone and is not stopped
C6_Witness ==
    /\ termOut.valid
    /\ state.result = "successful"
    /\ state.step >= 2
    /\ YTest
    /\ ~FTest
    /\ ~termOut.terminate

\* C7: immediately after init the state has f_val = f_prev = +inf, step = 0,
\* result successful, next_init = 1, a zero-filled aux, and a dummy vector and
\* operator filled with ones.
C7_AfterInit ==
    (pc \in {"run", "done"} /\ nsteps = 0) =>
        /\ state.f_val = PosInf
        /\ state.f_prev = PosInf
        /\ state.step = 0
        /\ state.result = "successful"
        /\ state.next_init = Fin(1)
        /\ DOMAIN state.aux = DOMAIN prob.y0
        /\ \A i \in DOMAIN state.aux : state.aux[i] = Fin(0)
        /\ DOMAIN state.vector = DOMAIN prob.y0
        /\ \A i \in DOMAIN state.vector : state.vector[i] = Fin(1)
        /\ DOMAIN state.operator.x = DOMAIN prob.y0
        /\ \A i \in DOMAIN state.operator.x : state.operator.x[i] = Fin(1)

\* init has just run for a two-leaf problem under a Levenberg-Marquardt solver
C7_Witness ==
    /\ pc = "run"
    /\ nsteps = 0
    /\ Len(prob.y0) = 2
    /\ solver.kind = "LevenbergMarquardt"

\* C8: two LevenbergMarquardt solvers constructed with different
\* backtrack_slope and decrease_factor use different trust-region rules.
C8_TrustRegionConfigured ==
    (pc # "new" /\ ctor.kind = "LevenbergMarquardt") =>
        \A e \in SlopeFactors :
            e # ctor.extra =>
                LevenbergMarquardt(ctor.rtol, ctor.atol, e[1], e[2]).line_search
                    # solver.line_search

\* C9: plain Gauss-Newton on fn(y) = y - 3 from y0 = 0 has y = 3 and
\* f_val = 0 once two step calls have been made.
C9_LinearSolvedInTwoSteps ==
    (solver.kind = "GaussNewton" /\ prob = Scenario1 /\ nsteps >= 2) =>
        (y = <<Fin(3)>> /\ state.f_val = Fin(0))

\* the second step call of that run has just returned
C9_Witness ==
    /\ solver.kind = "GaussNewton"
    /\ prob = Scenario1
    /\ nsteps = 2
    /\ y = <<Fin(3)>>

-----------------------------------------------------------------------------
(* Properties of the state a step call builds *)

TreeSub(a, b) == [i \in DOMAIN a |-> sub(a[i], b[i])]

IsZeroTree(t) == \A i \in DOMAIN t : t[i] = Fin(0)

\* the displacement the inner iteration of a step call returned
LineSearchDiff(o) == o.line_sol.aux[2]

\* the objective the inner iteration of a step call returned
LineSearchF(o) == o.line_sol.aux[1]

\* C11 as stated: in every state with step >= 1, diff is y_new - y_old of
\* the step call that produced it.
C11_DiffIsDisplacementFromFirstStep ==
    (pc \in {"run", "done"} /\ state.step >= 1) =>
        state.diff = TreeSub(y, obs.base)

\* C11: in every state with step >= 2, diff is y_new - y_old of the step call
\* that produced it, and y_new is where vector and operator were evaluated;
\* the state with step == 1 holds the displacement of the first inner run
\* while the parameter is the one the call was given.
C11_DiffIsDisplacement ==
    /\ (pc \in {"run", "done"} /\ state.step >= 2) =>
          /\ state.diff = TreeSub(y, obs.base)
          /\ obs.jac_at = y
    /\ (pc \in {"run", "done"} /\ state.step = 1) =>
          /\ y = obs.base
          /\ state.diff = LineSearchDiff(obs)

\* a state after two steps whose last displacement is not zero
C11_Witness ==
    /\ state.step >= 2
    /\ ~IsZeroTree(state.diff)
    /\ state.diff = TreeSub(y, obs.base)

C13_NewParameter ==
    obs.called =>
        /\ obs.in_step = 0 => y = obs.base
        /\ obs.in_step > 0 => y = tree_add(obs.base, LineSearchDiff(obs))

\* a first call whose inner run produced a displacement that was not applied
C13_Witness ==
    /\ obs.called
    /\ obs.in_step = 0
    /\ ~IsZeroTree(LineSearchDiff(obs))
    /\ y = obs.base

\* C14: in every state produced by a step call, vector and operator come
\* from the one evaluation made at the parameter the call returned; in the
\* init state both are the dummies.
C14_VectorOperatorTogether ==
    /\ nsteps >= 1 =>
          /\ obs.jac_calls = <<y>>
          /\ DOMAIN state.vector = DOMAIN y
          /\ \A i \in DOMAIN y :
                state.vector[i] = sub(mul(Fin(prob.a), y[i]), Fin(prob.c))
          /\ state.operator.x = y
    /\ (pc \in {"run", "done"} /\ nsteps = 0) =>
          /\ \A i \in DOMAIN state.vector : state.vector[i] = Fin(1)
          /\ \A i \in DOMAIN state.operator.x : state.operator.x[i] = Fin(1)

\* a state after two steps whose parameter has moved away from the initial one
C14_Witness ==
    /\ nsteps >= 2
    /\ y # prob.y0
    /\ state.operator.x = y

\* C15: init makes no residual/Jacobian evaluation and every step call makes
\* exactly one compute_jac_residual call, at the parameter it returns; after
\* n step calls n such evaluations have been made.
C15_OneEvaluationPerStep ==
    /\ pc = "constructed" => njac = 0
    /\ pc \in {"run", "done"} => njac = nsteps
    /\ obs.called => obs.jac_calls = <<y>>

\* two step calls made, two evaluations counted
C15_Witness ==
    /\ nsteps = 2
    /\ njac = 2
    /\ obs.jac_calls = <<y>>

\* C16: every step call produces a state whose f_prev is the input state's
\* f_val, whose f_val is the objective its inner run returned and whose step
\* is the input state's step plus 1, which is the number of step calls made.
C16_StateAssembly ==
    [][nsteps' = nsteps + 1 =>
          /\ state'.f_prev = state.f_val
          /\ state'.f_val = LineSearchF(obs')
          /\ state'.step = state.step + 1
          /\ state'.step = nsteps']_vars

\* a state after two steps whose f_prev is a finite objective other than f_val
C16_Witness ==
    /\ nsteps >= 2
    /\ state.step = nsteps
    /\ IsFin(state.f_prev)
    /\ state.f_prev # state.f_val
    /\ state.f_val = LineSearchF(obs)

\* the initial guess the inner iteration of a step call suggested for the next
LineSearchNextInit(o) == o.line_sol.aux[5]

\* C17: the initial guess handed to the inner iteration is the strategy's
\* first_init of the input state's vector and operator when the input state
\* has step <= 1, and the input state's next_init (the one the previous
\* call's inner run suggested) when it has step >= 2.
C17_InitialGuess ==
    obs.called =>
        /\ obs.in_step <= 1 =>
              obs.init = first_init(solver.line_search, obs.options.vector,
                                    obs.options.operator)
        /\ obs.in_step >= 2 => obs.init = LineSearchNextInit(prevObs)

\* a third call that starts from the guess the second call stored, which
\* is not the strategy's first guess
C17_Witness ==
    /\ obs.called
    /\ obs.in_step = 2
    /\ obs.init = Fin(2)
    /\ obs.init # first_init(solver.line_search, obs.options.vector,
                             obs.options.operator)

\* C18: compute_f0 is passed as true exactly by the step call made on a state
\* with step == 1, the second call of a run; f0 is the input state's f_val
\* when its step > 1 and +inf otherwise.
C18_ComputeF0 ==
    obs.called =>
        /\ obs.options.compute_f0 <=> obs.in_step = 1
        /\ obs.options.compute_f0 <=> nsteps = 2
        /\ obs.in_step <= 1 => obs.options.f0 = PosInf
        /\ obs.in_step > 1 => obs.options.f0 = LineSearchF(prevObs)

\* a third call, handed a finite reference value and no flag
C18_Witness ==
    /\ obs.called
    /\ obs.in_step = 2
    /\ ~obs.options.compute_f0
    /\ IsFin(obs.options.f0)
    /\ prevObs.options.compute_f0

\* C19: update_state receives the diff of the input state (init's
\* placeholder in the first call, the displacement of the previous call's
\* inner run afterwards) with the vector and operator evaluated at the
\* parameter this call returns.
C19_UpdateStateArguments ==
    obs.called =>
        /\ obs.in_step = 0 =>
              obs.update_args[1] = tree_full_like(prob.y0, PosInf)
        /\ obs.in_step >= 1 => obs.update_args[1] = LineSearchDiff(prevObs)
        /\ obs.update_args[2] = fn(prob, y).residual
        /\ obs.update_args[3] = JacobianLinearOperator(prob, y)

\* a call whose own displacement differs from the one it handed over
C19_Witness ==
    /\ obs.called
    /\ obs.in_step >= 1
    /\ obs.update_args[1] = LineSearchDiff(prevObs)
    /\ obs.update_args[1] # LineSearchDiff(obs)

\* C20: every state reachable from init has result successful, whatever the
\* inner iteration reported; terminate returns the code successful on it and
\* stops only when the convergence test passes after two steps.
C20_ResultAlwaysSuccessful ==
    pc \in {"run", "done"} =>
        /\ state.result = "successful"
        /\ termOut.valid =>
              /\ termOut.result = "successful"
              /\ termOut.terminate => (state.step >= 2 /\ YTest /\ FTest)

\* a step call whose inner iteration failed and whose state is successful,
\* on which terminate did not stop
C20_Witness ==
    /\ obs.called
    /\ obs.line_sol.result = "linear_solve_failed"
    /\ state.result = "successful"
    /\ termOut.valid
    /\ ~termOut.terminate

====
